---- MODULE Spec2Model ----
(***************************************************************************)
(* ResourceController of adonis-rest: the generic REST handler set that    *)
(* guards, filters and dispatches index / export / grid / form / view /    *)
(* store / show / update / destroy / destroyAll / options / stat / import  *)
(* for any Model.  One action per handler; a handler call is recorded in   *)
(* the request context (ctx, outcome, trace, result) until the request     *)
(* returns through the Global middleware.                                  *)
(***************************************************************************)
EXTENDS Integers, Sequences, FiniteSets, TLC

\* ---------------------------------------------------------------- bounds
MaxRows == 2        \* records the collection can hold
MaxPage == 2        \* largest page number a client asks for
MaxPerPage == 1     \* largest perPage a client asks for
MaxTextLen == 3     \* longest `text` parameter of options, in characters

\* ------------------------------------------------------ program constants
DefaultPerPage == 20
SelectSizeCap == 5
DefaultLimit == 10

Resource == "posts"
ScopeCapability == "groups.@"
RestrictField == "user_ids"
ActionsField == "_actions"
OrKey == <<"$", "o", "r">>
DefaultText == <<"n", "a", "m", "e">>
DefaultGroup == "os"
NoRole == "undefined"
NoInput == "undefined"
NoRef == <<>>
Absent == 0

\* --------------------------------------------------------------- helpers
Digits == <<"0", "1", "2", "3", "4", "5", "6", "7", "8", "9">>

\* String(n) of a small non-negative integer
RECURSIVE ToStr(_)
ToStr(n) == IF n < 10 THEN <<Digits[n + 1]>> ELSE ToStr(n \div 10) \o <<Digits[(n % 10) + 1]>>

\* Math.ceil(a / b) for a >= 0, b > 0
Ceil(a, b) == (a + b - 1) \div b

Range(s) == {s[i] : i \in DOMAIN s}

\* where[k] = v  (assignment to an object key)
SetKey(obj, k, v) == [x \in (DOMAIN obj) \cup {k} |-> IF x = k THEN v ELSE obj[x]]

\* delete where[k]
DelKey(obj, k) == [x \in (DOMAIN obj) \ {k} |-> obj[x]]

EmptyObj == [x \in {} |-> ""]

\* ------------------------------------------------------------ Model.fields
FieldKeys == <<"_id", "level", "user_ids", "editor_id", "note", "_actions">>

Descriptor(listable, searchable, editable, viewable, role, ref, selectSize) ==
    [listable |-> listable, searchable |-> searchable, editable |-> editable,
     viewable |-> viewable, role |-> role, ref |-> ref, selectSize |-> selectSize]

\* editor_id refers to another entity than user_ids
SchemaA ==
    [k \in Range(FieldKeys) |->
       CASE k = "_id"       -> Descriptor(TRUE, FALSE, FALSE, TRUE, NoRole, NoRef, Absent)
         [] k = "level"     -> Descriptor(TRUE, TRUE, TRUE, TRUE, "admin", NoRef, 8)
         [] k = "user_ids"  -> Descriptor(TRUE, TRUE, FALSE, TRUE, NoRole, <<"users", "username">>, 3)
         [] k = "editor_id" -> Descriptor(TRUE, FALSE, TRUE, TRUE, NoRole, <<"groups", "name">>, Absent)
         [] k = "note"      -> Descriptor(FALSE, TRUE, TRUE, FALSE, NoRole, <<"notes", "title">>, Absent)
         [] OTHER           -> Descriptor(TRUE, FALSE, TRUE, TRUE, NoRole, NoRef, Absent)]

\* editor_id and user_ids refer to the same entity
SchemaB ==
    [SchemaA EXCEPT !["editor_id"].ref = <<"users", "realname">>,
                    !["user_ids"].editable = TRUE,
                    !["user_ids"].role = "admin",
                    !["level"].selectSize = 5]

Schemas == {SchemaA, SchemaB}

\* _.omitBy(Model.fields, pred): the keys left once the dropped ones are
\* taken out, in the object's key order
OmitBy(dropped) == SelectSeq(FieldKeys, LAMBDA k : k \notin dropped)

\* _.pickBy(Model.fields, 'searchable')
PickSearchable(fs) == SelectSeq(FieldKeys, LAMBDA k : fs[k].searchable)

Listable(fs) == OmitBy({k \in DOMAIN fs : fs[k].listable = FALSE})

\* ------------------------------------------------------------------ actors
Actions == {"index", "import", "export", "view", "create", "update",
            "delete", "delete_all", "stat"}
ReadActions == {"index", "view", "export", "stat"}

Perm(action) == <<Resource, action>>

UserIds == 1 .. 2

\* an actor: can(p) answers p \in grants when the actor exposes can();
\* getPermissions() answers permissions when the actor exposes it
Users ==
    {u \in [_id : UserIds, hasCan : BOOLEAN, grants : {{}, ReadActions, Actions},
            hasGetPermissions : BOOLEAN, permissions : {{}, {ScopeCapability}},
            roles : {{}, {"admin"}}] :
        /\ u.hasCan = u.hasGetPermissions
        /\ (~u.hasCan) => (u.grants = {} /\ u.permissions = {} /\ u._id = 1 /\ u.roles = {"admin"})
        /\ (u._id = 1) = (u.roles = {"admin"})
        /\ (u.grants = {}) => (u.permissions = {} /\ u._id = 2)
        /\ (u.grants = ReadActions) => (u.permissions = {ScopeCapability} /\ u._id = 1)}

can(user, permission) == permission[2] \in user.grants

isRole(user, role) == role = NoRole \/ role \in user.roles

\* guard with the capability check left out: it never throws
guardSkipped(user, permission) == FALSE

\* guard(user, permission): TRUE iff it throws HttpException 403
guard(user, permission) == user.hasCan /\ ~can(user, permission)

\* ------------------------------------------------------------------- state
VARIABLES
    fields,     \* Model.fields: the process-wide field descriptors
    rows,       \* the records of the Model's collection
    ctx,        \* the request in progress: handler, actor, query, body, model
    outcome,    \* how the handler ended: "ok" or the error it threw
    trace,      \* the calls the handler made to its collaborators, in order
    result      \* the value the handler returned

vars == <<fields, rows, ctx, outcome, trace, result>>

RowIds == 1 .. MaxRows
Undefined == <<"undefined">>
OwnerValues == {ToStr(i) : i \in UserIds}

\* a stored record: its id, its ownership field, its soft-delete mark
Records == [_id : RowIds, user_ids : OwnerValues \cup {Undefined}, deleted : BOOLEAN]

\* every collection of records with distinct ids
Collections ==
    UNION {{{[_id |-> i, user_ids |-> f[i].user_ids, deleted |-> f[i].deleted] : i \in I} :
              f \in [I -> [user_ids : OwnerValues \cup {Undefined}, deleted : BOOLEAN]]} :
           I \in SUBSET RowIds}

NoCtx == [handler |-> "none"]
\* the actor of a handler that does not read auth
NoUser == [_id |-> 0, hasCan |-> FALSE, grants |-> {}, hasGetPermissions |-> FALSE,
           permissions |-> {}, roles |-> {}]
NoResult == <<>>

Call(op, arg) == [op |-> op, arg |-> arg]

\* ----------------------------------------------------- the storage engine
\* a constraint object matches a record when every key it holds equals the
\* record's value of that key
Matches(r, where) == \A k \in DOMAIN where : k \in DOMAIN r /\ r[k] = where[k]

\* the records a query sees: its where, and the softDeletes scope unless ignored
Visible(S, where, ignoreScopes) ==
    {r \in S : Matches(r, where) /\ ("softDeletes" \in ignoreScopes \/ ~r.deleted)}

\* the records of S in _id order
RECURSIVE InOrder(_)
InOrder(S) ==
    IF S = {} THEN <<>>
    ELSE LET first == CHOOSE r \in S : \A o \in S : r._id <= o._id
         IN  <<first>> \o InOrder(S \ {first})

\* .skip(offset).limit(limit) on an ordered result
SkipLimit(s, offset, limit) ==
    LET from == IF offset < 0 THEN 1 ELSE offset + 1
        to   == IF from + limit - 1 > Len(s) THEN Len(s) ELSE from + limit - 1
    IN  IF from > Len(s) THEN <<>> ELSE SubSeq(s, from, to)

\* .select(keys): _id is always returned
Project(r, keys) == [k \in (DOMAIN r) \cap (Range(keys) \cup {"_id"}) |-> r[k]]

\* ------------------------------------------------------- request inputs
NoAppends == <<>>
NoWith == <<>>

Wheres == {EmptyObj} \cup {SetKey(EmptyObj, RestrictField, o) : o \in OwnerValues}

ListQueries ==
    [where : Wheres, page : 1 .. MaxPage, perPage : {Absent} \cup (1 .. MaxPerPage),
     with : {NoWith}, appends : {NoAppends, <<"summary">>}, withTrash : BOOLEAN]

ExportQueries ==
    [where : Wheres, page : {1}, perPage : {Absent},
     with : {NoWith, <<"users">>, <<"tags">>}, appends : {NoAppends}, withTrash : BOOLEAN]

\* request bodies: any of an owner, a level and a key Model.fields lacks
Bodies ==
    {b \in UNION {[K -> OwnerValues \cup {<<"x">>}] : K \in SUBSET {RestrictField, "level", "bogus"}} :
        \A k \in DOMAIN b : (k = RestrictField) = (b[k] \in OwnerValues)}

\* the request context a handler leaves behind
Ctx(handler, user, request, query) ==
    [handler |-> handler, user |-> user, request |-> request, query |-> query]

\* the handler threw before returning
Throws(handler, user, request, query, error, calls) ==
    /\ ctx' = Ctx(handler, user, request, query)
    /\ outcome' = error
    /\ trace' = calls
    /\ result' = NoResult

\* the handler returned
Returns(handler, user, request, query, calls, value) ==
    /\ ctx' = Ctx(handler, user, request, query)
    /\ outcome' = "ok"
    /\ trace' = calls
    /\ result' = value

\* processData(ctx, query, data): the fetchAppends calls it makes
processData(query, data) ==
    IF query.appends # NoAppends
    THEN [i \in DOMAIN data |-> Call("fetchAppends", [row |-> data[i]._id, appends |-> query.appends])]
    ELSE <<>>

\* the scoping constraint only added when the client left the field free
restrictUnlessGiven(user, where) ==
    IF user.hasGetPermissions /\ ScopeCapability \in user.permissions
       /\ RestrictField \notin DOMAIN where
    THEN SetKey(where, RestrictField, ToStr(user._id))
    ELSE where

\* index, lines 30-33: the where the queries are built from
restrict(user, where) ==
    IF user.hasGetPermissions /\ ScopeCapability \in user.permissions
    THEN SetKey(where, RestrictField, ToStr(user._id))
    ELSE where

\* ---------------------------------------------------------------- handlers
index(user, query) ==
    /\ ctx = NoCtx
    /\ UNCHANGED <<fields, rows>>
    /\ IF guard(user, Perm("index"))
       THEN Throws("index", user, query, query, "403", <<>>)
       ELSE LET q1      == [query EXCEPT !.where = restrict(user, query.where)]
                fs      == Listable(fields)
                perPage == IF query.perPage = Absent THEN DefaultPerPage ELSE query.perPage
                offset  == (query.page - 1) * perPage
                limit   == perPage
                ignore  == IF query.withTrash THEN {"softDeletes"} ELSE {}
                page    == SkipLimit(InOrder(Visible(rows, q1.where, ignore)), offset, limit)
                data    == [i \in DOMAIN page |-> Project(page[i], fs)]
                total   == Cardinality(Visible(rows, q1.where, {}))
                lastPage == Ceil(total, perPage)
                calls   == <<Call("fetch", [query |-> q1, select |-> fs, skip |-> offset,
                                            limit |-> limit, ignoreScopes |-> ignore]),
                             Call("count", [query |-> q1, ignoreScopes |-> {}])>>
                            \o processData(q1, data)
            IN  Returns("index", user, query, q1, calls,
                        [page |-> query.page, perPage |-> perPage, total |-> total,
                         lastPage |-> lastPage, data |-> data])

import(user) ==
    /\ ctx = NoCtx
    /\ UNCHANGED <<fields, rows>>
    /\ IF guard(user, Perm("import"))
       THEN Throws("import", user, EmptyObj, EmptyObj, "403", <<>>)
       ELSE Throws("import", user, EmptyObj, EmptyObj, "400", <<>>)

\* inflection.titleize(key)
titleize(key) == [titleize |-> key]

\* export, lines 70-76: the entity of every ref among the exported fields
populate(fs, keys) ==
    LET withRef == SelectSeq(keys, LAMBDA k : fs[k].ref # NoRef)
    IN  [i \in DOMAIN withRef |-> Head(fs[withRef[i]].ref)]

\* Model.getValue(row, k)
getValue(row, k) == IF k \in DOMAIN row THEN row[k] ELSE Undefined

export(user, query) ==
    /\ ctx = NoCtx
    /\ UNCHANGED <<fields, rows>>
    /\ IF guard(user, Perm("export"))
       THEN Throws("export", user, query, query, "403", <<>>)
       ELSE LET fs     == OmitBy({k \in DOMAIN fields :
                                     fields[k].listable = FALSE \/ k = ActionsField})
                q1     == [query EXCEPT !.with = query.with \o populate(fields, fs)]
                ignore == IF query.withTrash THEN {"softDeletes"} ELSE {}
                found  == InOrder(Visible(rows, q1.where, ignore))
                data   == [i \in DOMAIN found |-> Project(found[i], fs)]
                header == [i \in DOMAIN fs |-> titleize(fs[i])]
                lines  == [i \in DOMAIN data |-> [j \in DOMAIN fs |-> getValue(data[i], fs[j])]]
                ret    == <<header>> \o lines
                calls  == <<Call("buildOptions", <<>>),
                            Call("fetch", [query |-> q1, select |-> fs, ignoreScopes |-> ignore])>>
                           \o processData(q1, data)
                           \o <<Call("mkdirSync", <<>>), Call("writeFileSync", ret),
                                Call("attachment", <<>>)>>
            IN  Returns("export", user, query, q1, calls, [sheet |-> ret, rows |-> data])

\* grid, lines 118-123: Model.fields once the searchable descriptors that
\* carry a selectSize have been assigned 5
capSelectSize(fs) ==
    [k \in DOMAIN fs |->
       IF fs[k].searchable /\ fs[k].selectSize # Absent
       THEN [fs[k] EXCEPT !.selectSize = SelectSizeCap]
       ELSE fs[k]]

grid ==
    /\ ctx = NoCtx
    /\ fields' = capSelectSize(fields)
    /\ UNCHANGED rows
    /\ LET searchFields == PickSearchable(fields)
       IN  Returns("grid", NoUser, EmptyObj, EmptyObj, <<Call("buildOptions", <<>>)>>,
                   [searchFields |-> [k \in Range(searchFields) |-> fields'[k]],
                    searchModel |-> [k \in Range(searchFields) |-> "null"],
                    fields |-> [k \in Range(Listable(fields)) |-> fields'[k]]])

IgnoredFields == {"_id", "created_at", "updated_at", "_actions"}

form(user, model) ==
    /\ ctx = NoCtx
    /\ UNCHANGED <<fields, rows>>
    /\ LET fs == OmitBy({k \in DOMAIN fields :
                            \/ fields[k].editable = FALSE
                            \/ k \in IgnoredFields
                            \/ ~isRole(user, fields[k].role)})
       IN  Returns("form", user, EmptyObj, EmptyObj,
                   <<Call("buildOptions", <<>>), Call("labels", <<>>)>>,
                   [fields |-> fs, model |-> model])

view(user, model) ==
    /\ ctx = NoCtx
    /\ UNCHANGED <<fields, rows>>
    /\ IF guard(user, Perm("view"))
       THEN Throws("view", user, EmptyObj, EmptyObj, "403", <<>>)
       ELSE LET fs == OmitBy({k \in DOMAIN fields :
                                 fields[k].viewable = FALSE \/ k = ActionsField})
            IN  Returns("view", user, EmptyObj, EmptyObj,
                        <<Call("buildOptions", <<>>), Call("labels", <<>>)>>,
                        [fields |-> fs, model |-> model])

\* _.omitBy(request.all(), pred): the body without the dropped keys
OmitKeys(obj, dropped) == [k \in (DOMAIN obj) \ dropped |-> obj[k]]

\* model.merge(data): the stored record takes the values data holds
merge(record, data) ==
    IF RestrictField \in DOMAIN data
    THEN [record EXCEPT !.user_ids = data[RestrictField]]
    ELSE record

\* the instance store receives: no id before save(), no attribute set
NewId == CHOOSE i \in RowIds : i \notin {r._id : r \in rows} /\ \A j \in 1 .. (i - 1) : j \in {r._id : r \in rows}
NewModel == [_id |-> NewId, user_ids |-> Undefined, deleted |-> FALSE]

store(user, all, valid) ==
    /\ ctx = NoCtx
    /\ UNCHANGED fields
    /\ IF guard(user, Perm("create"))
       THEN UNCHANGED rows /\ Throws("store", user, all, all, "403", <<>>)
       ELSE IF \E k \in DOMAIN all : k \notin DOMAIN fields
       THEN UNCHANGED rows /\ Throws("store", user, all, all, "TypeError", <<>>)
       ELSE LET data == OmitKeys(all, {k \in DOMAIN all : ~isRole(user, fields[k].role)})
            IN  IF ~valid
                THEN UNCHANGED rows
                     /\ Throws("store", user, all, all, "ValidationFailed", <<Call("validate", data)>>)
                ELSE /\ \E i \in RowIds : i \notin {r._id : r \in rows}
                     /\ rows' = rows \cup {merge(NewModel, data)}
                     /\ Returns("store", user, all, all,
                                <<Call("validate", data), Call("merge", data), Call("save", <<>>)>>,
                                merge(NewModel, data))

show(model) ==
    /\ ctx = NoCtx
    /\ UNCHANGED <<fields, rows>>
    /\ Returns("show", NoUser, EmptyObj, EmptyObj, <<>>, model)

update(user, model, all, valid) ==
    /\ ctx = NoCtx
    /\ UNCHANGED fields
    /\ IF guard(user, Perm("update"))
       THEN UNCHANGED rows /\ Throws("update", user, [model |-> model, all |-> all], all, "403", <<>>)
       ELSE LET data == all
            IN  IF ~valid
                THEN UNCHANGED rows
                     /\ Throws("update", user, [model |-> model, all |-> all], all,
                               "ValidationFailed", <<Call("validate", data)>>)
                ELSE /\ rows' = (rows \ {model}) \cup {merge(model, data)}
                     /\ Returns("update", user, [model |-> model, all |-> all], all,
                                <<Call("validate", data), Call("merge", data), Call("save", <<>>)>>,
                                merge(model, data))

destroy(user, model) ==
    /\ ctx = NoCtx
    /\ UNCHANGED fields
    /\ IF guard(user, Perm("delete"))
       THEN UNCHANGED rows /\ Throws("destroy", user, model, EmptyObj, "403", <<>>)
       ELSE /\ rows' = rows \ {model}
            /\ Returns("destroy", user, model, EmptyObj, <<Call("delete", model._id)>>,
                       [success |-> TRUE])

\* the query destroyAll builds: Model.query() takes no argument
destroyAllQuery(query) == EmptyObj

destroyAll(user, query) ==
    /\ ctx = NoCtx
    /\ UNCHANGED fields
    /\ IF guard(user, Perm("delete_all"))
       THEN UNCHANGED rows /\ Throws("destroyAll", user, query, query, "403", <<>>)
       ELSE /\ rows' = rows \ Visible(rows, destroyAllQuery(query), {})
            /\ Returns("destroyAll", user, query, query,
                       <<Call("deleteMany", destroyAllQuery(query))>>, [success |-> TRUE])

\* ------------------------------------------------------------- options
Chars == {"a", "b", " "}
Texts == UNION {[1 .. n -> Chars] : n \in 0 .. MaxTextLen}
OtherKey == <<"z">>

\* text.includes(' ')
includes(text, c) == \E i \in DOMAIN text : text[i] = c

\* String(text).split(' ')
RECURSIVE split(_, _)
split(text, c) ==
    IF ~includes(text, c) THEN <<text>>
    ELSE LET i == CHOOSE j \in DOMAIN text : text[j] = c /\ \A h \in 1 .. (j - 1) : text[h] # c
         IN  <<SubSeq(text, 1, i - 1)>> \o split(SubSeq(text, i + 1, Len(text)), c)

\* parseInt(limit): limit is read as a string of digits
RECURSIVE parseDigits(_)
parseDigits(str) ==
    IF str = <<>> THEN 0
    ELSE parseDigits(SubSeq(str, 1, Len(str) - 1)) * 10
         + (CHOOSE d \in 0 .. 9 : Digits[d + 1] = str[Len(str)])
parseInt(limit) == parseDigits(limit)

\* new RegExp(source, 'i')
RegExp(source, flags) == [source |-> source, flags |-> flags]

\* where[text] is truthy
Truthy(where, key) == key \in DOMAIN where /\ where[key] # ""

\* options, lines 204-213: the constraint handed to fetchOptions
optionsWhere(text, where) ==
    IF Truthy(where, text)
    THEN LET parts   == split(text, " ")
             orWhere == IF includes(text, " ")
                        THEN [i \in DOMAIN parts |-> [key |-> parts[i], value |-> RegExp(where[text], "i")]]
                        ELSE <<>>
             kept    == IF includes(text, " ") THEN DelKey(where, text) ELSE where
         IN  SetKey(kept, OrKey, orWhere)
    ELSE where

\* the where parameter: a JSON text that parses to an object, or does not parse
WhereParams(text) ==
    {[parses |-> FALSE, value |-> EmptyObj]} \cup
    {[parses |-> TRUE, value |-> w] :
        w \in UNION {[K -> {"abc", ""}] : K \in SUBSET {text, OtherKey}}}

options(text, value, where, limit) ==
    /\ ctx = NoCtx
    /\ UNCHANGED <<fields, rows>>
    /\ LET text1  == IF text = Undefined THEN DefaultText ELSE text
           value1 == IF value = Undefined THEN <<"_", "i", "d">> ELSE value
           limit1 == IF limit = Undefined THEN ToStr(DefaultLimit) ELSE limit
           request == [text |-> text, value |-> value, where |-> where, limit |-> limit]
       IN  IF ~where.parses
           THEN Throws("options", NoUser, request, EmptyObj, "SyntaxError", <<>>)
           ELSE LET where1 == optionsWhere(text1, where.value)
                IN  Returns("options", NoUser, request, [text |-> text1, where |-> where1],
                            <<Call("fetchOptions", [value |-> value1, text |-> text1,
                                                    where |-> where1, limit |-> parseInt(limit1)])>>,
                            NoResult)

\* ---------------------------------------------------------------- stat
\* Model.count(group): the number of records under each value of the field
groupCount(S, group) ==
    LET key(r) == IF group \in DOMAIN r THEN r[group] ELSE Undefined
    IN  [g \in {key(r) : r \in S} |-> Cardinality({r \in S : key(r) = g})]

stat(user, group) ==
    /\ ctx = NoCtx
    /\ UNCHANGED <<fields, rows>>
    /\ IF guard(user, Perm("stat"))
       THEN Throws("stat", user, [group |-> group], EmptyObj, "403", <<>>)
       ELSE LET group1 == IF group = NoInput THEN DefaultGroup ELSE group
                data   == groupCount(Visible(rows, EmptyObj, {}), group1)
            IN  Returns("stat", user, [group |-> group], EmptyObj, <<Call("count", group1)>>,
                        [labels |-> DOMAIN data, data |-> data])

\* Global.handle: the request is over once next() has returned
handle ==
    /\ ctx # NoCtx
    /\ ctx' = NoCtx
    /\ outcome' = "none"
    /\ trace' = <<>>
    /\ result' = NoResult
    /\ UNCHANGED <<fields, rows>>

Init ==
    /\ fields \in Schemas
    /\ rows \in Collections
    /\ ctx = NoCtx
    /\ outcome = "none"
    /\ trace = <<>>
    /\ result = NoResult

\* no request is in progress
Idle == ctx = NoCtx

Next ==
    \/ Idle /\ \E u \in Users, q \in ListQueries : index(u, q)
    \/ Idle /\ \E u \in Users : import(u)
    \/ Idle /\ \E u \in Users, q \in ExportQueries : export(u, q)
    \/ Idle /\ grid
    \/ Idle /\ \E u \in Users, m \in rows : form(u, m)
    \/ Idle /\ \E u \in Users, m \in rows : view(u, m)
    \/ Idle /\ \E u \in Users, all \in Bodies, valid \in BOOLEAN : store(u, all, valid)
    \/ Idle /\ \E m \in rows : show(m)
    \/ Idle /\ \E u \in Users, m \in rows, all \in Bodies, valid \in BOOLEAN : update(u, m, all, valid)
    \/ Idle /\ \E u \in Users, m \in rows : destroy(u, m)
    \/ Idle /\ \E u \in Users, w \in Wheres : destroyAll(u, w)
    \/ Idle /\ \E text \in Texts \cup {Undefined}, limit \in {Undefined, <<"7">>} :
                 \E where \in WhereParams(IF text = Undefined THEN DefaultText ELSE text) :
                    options(text, Undefined, where, limit)
    \/ Idle /\ \E u \in Users, group \in {NoInput, RestrictField} : stat(u, group)
    \/ handle

Spec == Init /\ [][Next]_vars

\* ================================================================ claims
GuardedHandlers == {"index", "import", "export", "view", "store", "update",
                    "destroy", "destroyAll", "stat"}

\* the action each guarded handler names in its permission string
ActionOf(handler) ==
    CASE handler = "store"      -> "create"
      [] handler = "destroy"    -> "delete"
      [] handler = "destroyAll" -> "delete_all"
      [] OTHER                  -> handler

Scoped(user) == user.hasGetPermissions /\ ScopeCapability \in user.permissions

Owner(id) == (CHOOSE r \in rows : r._id = id).user_ids

QueryCalls == {i \in DOMAIN trace : trace[i].op \in {"fetch", "count"}}

\* C1: a guarded handler called by an actor whose can() answers false for the
\* handler's permission ends with 403 and has made no call to storage, the
\* validator, the record or the file system.
C1_GuardBeforeEffects ==
    (ctx.handler \in GuardedHandlers /\ ctx.user.hasCan
        /\ ~can(ctx.user, Perm(ActionOf(ctx.handler))))
    => (outcome = "403" /\ trace = <<>> /\ result = NoResult)

C1_Witness ==
    /\ ctx.handler = "destroyAll"
    /\ ctx.user.hasCan /\ ~can(ctx.user, Perm("delete_all"))
    /\ outcome = "403"
    /\ rows # {}

\* C2: in index, for an actor holding groups.@, the data query and the count
\* query both carry where[user_ids] = String(actor id), whatever where the
\* client sent, and every returned row is owned by the actor.
C2_IndexScoped ==
    (ctx.handler = "index" /\ outcome = "ok" /\ Scoped(ctx.user))
    => /\ \E i \in QueryCalls : trace[i].op = "fetch"
       /\ \E i \in QueryCalls : trace[i].op = "count"
       /\ \A i \in QueryCalls :
            /\ RestrictField \in DOMAIN trace[i].arg.query.where
            /\ trace[i].arg.query.where[RestrictField] = ToStr(ctx.user._id)
       /\ \A j \in DOMAIN result.data : Owner(result.data[j]._id) = ToStr(ctx.user._id)

C2_Witness ==
    /\ ctx.handler = "index" /\ outcome = "ok" /\ Scoped(ctx.user)
    /\ RestrictField \in DOMAIN ctx.request.where
    /\ ctx.request.where[RestrictField] # ToStr(ctx.user._id)
    /\ \E r \in rows : r.user_ids = ctx.request.where[RestrictField] /\ ~r.deleted
    /\ result.data # <<>>

\* C3: in export, for an actor holding groups.@, the exported rows are only
\* those whose user_ids equals the actor's id.
C3_ExportScoped ==
    (ctx.handler = "export" /\ outcome = "ok" /\ Scoped(ctx.user))
    => \A j \in DOMAIN result.rows : Owner(result.rows[j]._id) = ToStr(ctx.user._id)

ValidatedOrMerged == {i \in DOMAIN trace : trace[i].op \in {"validate", "merge"}}

\* C4: in store and update, no key whose descriptor has editable = false is
\* in the payload handed to validate() or merged into the record.
C4_NonEditableDropped ==
    (ctx.handler \in {"store", "update"})
    => \A i \in ValidatedOrMerged :
         \A k \in (DOMAIN trace[i].arg) \cap (DOMAIN fields) : fields[k].editable

\* C5: in update, no key whose role the actor lacks reaches validate() or
\* merge(), and the saved record keeps its value of such a field.
C5_UpdateRoleFiltered ==
    (ctx.handler = "update")
    => /\ \A i \in ValidatedOrMerged :
            \A k \in (DOMAIN trace[i].arg) \cap (DOMAIN fields) : isRole(ctx.user, fields[k].role)
       /\ (outcome = "ok" /\ ~isRole(ctx.user, fields[RestrictField].role))
            => result.user_ids = ctx.request.model.user_ids

\* the field names a text parameter lists
FieldNames(text) == SelectSeq(split(text, " "), LAMBDA part : part # <<>>)

\* C6: in options, when the decoded where holds a constraint under the text
\* key, fetchOptions gets an OR-list with one case-insensitive pattern per
\* field name of text and no constraint under the text key; otherwise the
\* where is passed through unchanged.
C6_OptionsOrList ==
    (ctx.handler = "options" /\ outcome = "ok")
    => LET text  == ctx.query.text
           given == ctx.request.where.value
           sent  == trace[1].arg.where
       IN  IF Truthy(given, text)
           THEN /\ OrKey \in DOMAIN sent
                /\ Len(sent[OrKey]) = Len(FieldNames(text))
                /\ \A i \in DOMAIN sent[OrKey] :
                     /\ sent[OrKey][i].key = FieldNames(text)[i]
                     /\ sent[OrKey][i].value = RegExp(given[text], "i")
                /\ text \notin DOMAIN sent
           ELSE sent = given

\* C7: destroyAll, once the guard passes, deletes exactly the records that
\* match the request's filter: a record that does not match stays, a
\* visible record that matches goes.
C7_DestroyAllFrame ==
    [][(ctx'.handler = "destroyAll" /\ outcome' = "ok")
        => /\ \A r \in rows : ~Matches(r, ctx'.request) => r \in rows'
           /\ \A r \in rows : (Matches(r, ctx'.request) /\ ~r.deleted) => r \notin rows']_vars

\* C8: in export, query.with names each related entity at most once and
\* names the entity of every exported field's ref.
C8_ExportWithDistinct ==
    (ctx.handler = "export" /\ outcome = "ok")
    => LET with == trace[2].arg.query.with
       IN  /\ \A i, j \in DOMAIN with : with[i] = with[j] => i = j
           /\ \A k \in Range(trace[2].arg.select) :
                fields[k].ref # NoRef => Head(fields[k].ref) \in Range(with)

\* C9: no handler changes a field descriptor.
C9_DescriptorsUnchanged == [][fields' = fields]_vars

\* C10: in index, total is the number of rows the data query returns without
\* pagination, under the same where and the same soft-delete visibility;
\* lastPage = ceil(total / perPage); data is the page at offset
\* (page - 1) * perPage, at most perPage rows.
C10_IndexTotal ==
    (ctx.handler = "index" /\ outcome = "ok")
    => LET fetched == trace[1].arg
           all     == InOrder(Visible(rows, fetched.query.where, fetched.ignoreScopes))
       IN  /\ result.total = Len(all)
           /\ result.lastPage = Ceil(result.total, result.perPage)
           /\ Len(result.data) <= result.perPage
           /\ fetched.skip = (result.page - 1) * result.perPage
           /\ \A j \in DOMAIN result.data : result.data[j]._id = all[fetched.skip + j]._id

====
